---- MODULE Spec2Model ----
(***************************************************************************)
(* Model of streamlit_app.py ("Smart Study Buddy").                        *)
(*                                                                         *)
(* A Streamlit application is one script that is run again, top to bottom, *)
(* on every widget event.  What survives between two runs is               *)
(* st.session_state (conversation, file_content) and the widgets' own      *)
(* state (the two file uploaders and the radio keep their value; the       *)
(* button and the chat input deliver their value to one run only).         *)
(* Every action below is one widget event followed by the whole script     *)
(* run it triggers.                                                        *)
(*                                                                         *)
(* Text is modelled as a sequence of tokens, concatenation as \o and the   *)
(* Python test  "X" in s  as membership of the token X.  An optional       *)
(* value (None or a value) is a sequence of length 0 or 1.                 *)
(***************************************************************************)
EXTENDS Naturals, Sequences, FiniteSets

VARIABLES
    secrets,        \* names of the credentials st.secrets / os.environ provide
    conversation,   \* st.session_state.conversation
    file_content,   \* st.session_state.file_content
    uploaded_file,  \* what the notes uploader holds
    uploaded_image, \* what the image uploader holds
    mode,           \* the radio's selection
    calls,          \* history: provider requests made so far
    submissions,    \* history: user submissions so far
    runs,           \* history: script runs so far
    last            \* history: what the latest script run was given and did

vars == <<secrets, conversation, file_content, uploaded_file, uploaded_image,
          mode, calls, submissions, runs, last>>

(* Bound of the exploration: script runs per behaviour. *)
MaxRuns == 3

----------------------------------------------------------------------------
(* Optional values and Python truthiness. *)

None == <<>>

Some(x) == <<x>>

\* bool(x) for x None, a str or a bytes: None and the empty value are falsy
Truthy(opt) == opt # None /\ opt[1] # <<>>

----------------------------------------------------------------------------
(* Text helpers. *)

IsSpace(tok) == tok \in {" ", "\n", "\n\n"}

RECURSIVE LStrip(_)
LStrip(s) == IF s # <<>> /\ IsSpace(Head(s)) THEN LStrip(Tail(s)) ELSE s

RECURSIVE RStrip(_)
RStrip(s) ==
    IF s # <<>> /\ IsSpace(s[Len(s)]) THEN RStrip(SubSeq(s, 1, Len(s) - 1)) ELSE s

\* str.strip()
Strip(s) == RStrip(LStrip(s))

\* sep.join(parts)
RECURSIVE Join(_, _)
Join(sep, parts) ==
    IF parts = <<>> THEN <<>>
    ELSE IF Len(parts) = 1 THEN parts[1]
    ELSE parts[1] \o <<sep>> \o Join(sep, Tail(parts))

\* "X" in s
Contains(s, tok) == \E i \in 1..Len(s) : s[i] = tok

----------------------------------------------------------------------------
(* Credentials. *)

KeyNames == {"GEMINI_API_KEY", "OPENAI_API_KEY"}

\* API_KEY is truthy; otherwise the script reports an error and st.stop()s
HasApiKey == "GEMINI_API_KEY" \in secrets

----------------------------------------------------------------------------
(* The notes uploader and the extraction of its file. *)

NoFile ==
    [present |-> FALSE, ext |-> "", mime |-> <<>>, format |-> "", parts |-> <<>>]

NotesTxt ==
    [present |-> TRUE, ext |-> "txt", mime |-> <<"text", "plain">>,
     format |-> "txt", parts |-> << <<"chlorophyll", "\n">> >>]

PaperPdf ==
    [present |-> TRUE, ext |-> "pdf", mime |-> <<"application", "pdf">>,
     format |-> "pdf", parts |-> << <<" ", "mitosis">>, <<>> >>]

BrokenDocx ==
    [present |-> TRUE, ext |-> "docx", mime |-> <<"application", "octet-stream">>,
     format |-> "damaged", parts |-> <<>>]

NotesFiles == {NotesTxt, PaperPdf, BrokenDocx}

\* The try body of the notes block: [raised, text]
ExtractText(f) ==
    IF Contains(f.mime, "pdf") \/ f.ext = "pdf"
    THEN IF f.format = "pdf"
         THEN [raised |-> FALSE, text |-> Strip(Join("\n\n", f.parts))]
         ELSE [raised |-> TRUE, text |-> <<>>]
    ELSE IF Contains(f.mime, "plain") \/ f.ext = "txt"
    THEN [raised |-> FALSE, text |-> Join("", f.parts)]
    ELSE IF f.format = "docx"
         THEN [raised |-> FALSE, text |-> Strip(Join("\n", f.parts))]
         ELSE [raised |-> TRUE, text |-> <<>>]

\* Mutant of NotesBlock: the except branch forgets the previous context
NotesBlock_ResetOnFailure(fc, f) ==
    IF ~f.present THEN fc
    ELSE IF ExtractText(f).raised THEN <<>>
    ELSE ExtractText(f).text

\* The notes block: the new st.session_state.file_content
NotesBlock(fc, f) ==
    IF f.present /\ ~ExtractText(f).raised THEN ExtractText(f).text ELSE fc

----------------------------------------------------------------------------
(* The image uploader. *)

NoImage == [present |-> FALSE, type |-> "", data |-> <<>>, valid |-> FALSE]

PhotoPng ==
    [present |-> TRUE, type |-> "image/png", data |-> <<"b1", "b2">>, valid |-> TRUE]

EmptyPng == [present |-> TRUE, type |-> "image/png", data |-> <<>>, valid |-> FALSE]

CorruptJpg ==
    [present |-> TRUE, type |-> "image/jpeg", data |-> <<"b3">>, valid |-> FALSE]

ImageFiles == {PhotoPng, EmptyPng, CorruptJpg}

\* Mutant of ReadImage: the except branch does not reset image_bytes to None
ReadImage_KeepsBytes(img) == IF ~img.present THEN None ELSE Some(img.data)

\* The image block: image_bytes
ReadImage(img) ==
    IF ~img.present THEN None
    ELSE IF img.valid THEN Some(img.data)
    ELSE None

----------------------------------------------------------------------------
(* The Clear Chat button. *)

ClearChatBlock(conv, pressed) == IF pressed THEN <<>> ELSE conv

----------------------------------------------------------------------------
(* The provider call. *)

QuotaMsg ==
    <<"[!] Oops! You've used up today's free quota (50 requests/day). Please try again tomorrow, or upgrade your Gemini plan for more usage.">>

PermissionMsg ==
    <<"[!] API key is invalid or missing required permissions. Check your Google AI Studio settings.">>

SomethingWentWrong == <<"[!] Something went wrong: ">>

\* What the SDK does with one request: a reply, or an exception with str(e)
Outcomes ==
    { [ok |-> TRUE,  text |-> <<"OK">>],
      [ok |-> FALSE, text |-> <<"429", "RESOURCE_EXHAUSTED">>],
      [ok |-> FALSE, text |-> <<"403", "PERMISSION_DENIED">>],
      [ok |-> FALSE, text |-> <<"PERMISSION_DENIED", "RESOURCE_EXHAUSTED">>],
      [ok |-> FALSE, text |-> <<"TypeError">>] }

NoOutcome == [ok |-> FALSE, text |-> <<>>]

ProvenanceMarker == <<"(answered by the secondary provider)">>

\* Mutant of call_gemini: a quota error is retried once on a second provider
call_gemini_Retrying(prompt_text, image_bytes, outcome) ==
    IF outcome.ok THEN [raised |-> FALSE, value |-> outcome.text, requests |-> 1]
    ELSE IF Contains(outcome.text, "RESOURCE_EXHAUSTED")
    THEN [raised |-> FALSE, value |-> <<"OK">> \o ProvenanceMarker, requests |-> 2]
    ELSE IF Contains(outcome.text, "PERMISSION_DENIED")
    THEN [raised |-> FALSE, value |-> PermissionMsg, requests |-> 1]
    ELSE [raised |-> FALSE, value |-> SomethingWentWrong \o outcome.text,
          requests |-> 1]

\* Mutant of call_gemini: the PERMISSION_DENIED branch is missing
call_gemini_NoPermissionBranch(prompt_text, image_bytes, outcome) ==
    IF outcome.ok THEN [raised |-> FALSE, value |-> outcome.text, requests |-> 1]
    ELSE IF Contains(outcome.text, "RESOURCE_EXHAUSTED")
    THEN [raised |-> FALSE, value |-> QuotaMsg, requests |-> 1]
    ELSE [raised |-> FALSE, value |-> SomethingWentWrong \o outcome.text,
          requests |-> 1]

\* Mutant of call_gemini: only the two classified errors are caught
call_gemini_OtherEscapes(prompt_text, image_bytes, outcome) ==
    IF outcome.ok THEN [raised |-> FALSE, value |-> outcome.text, requests |-> 1]
    ELSE IF Contains(outcome.text, "RESOURCE_EXHAUSTED")
    THEN [raised |-> FALSE, value |-> QuotaMsg, requests |-> 1]
    ELSE IF Contains(outcome.text, "PERMISSION_DENIED")
    THEN [raised |-> FALSE, value |-> PermissionMsg, requests |-> 1]
    ELSE [raised |-> TRUE, value |-> <<>>, requests |-> 1]

\* call_gemini: [raised, value, requests].  raised: an exception leaves the
\* function; value: what it returns; requests: the generate_content requests
\* it makes (one per invocation, whatever the outcome)
call_gemini(prompt_text, image_bytes, outcome) ==
    IF outcome.ok THEN [raised |-> FALSE, value |-> outcome.text, requests |-> 1]
    ELSE IF Contains(outcome.text, "RESOURCE_EXHAUSTED")
    THEN [raised |-> FALSE, value |-> QuotaMsg, requests |-> 1]
    ELSE IF Contains(outcome.text, "PERMISSION_DENIED")
    THEN [raised |-> FALSE, value |-> PermissionMsg, requests |-> 1]
    ELSE [raised |-> FALSE, value |-> SomethingWentWrong \o outcome.text,
          requests |-> 1]

----------------------------------------------------------------------------
(* The input handler. *)

Modes == {"Explain", "Quiz", "Review"}

ImagePlaceholder == <<"[camera] Sent an image">>

ImageQuery ==
    <<"Please describe and explain this image, and give 2 short flashcards.">>

SystemPrompt(m, context) ==
    IF m = "Explain"
    THEN <<"You are a teacher. Explain this step by step in simple terms. Do not ask follow-up questions.",
           "\n\n", "Reference notes:", "\n">> \o context
    ELSE IF m = "Quiz"
    THEN <<"You are a quiz master. Create 3-5 quiz questions (answers hidden). Keep it concise.",
           "\n\n", "Reference notes:", "\n">> \o context
    ELSE <<"You are a study coach. Summarize and review this clearly. End after summary.",
           "\n\n", "Reference notes:", "\n">> \o context

\* if user_input or image_bytes
ShouldHandle(user_input, image_bytes) == Truthy(user_input) \/ Truthy(image_bytes)

Turn(role, content) == [role |-> role, content |-> content]

\* The conversation after the two appends that precede the provider call
WithUserTurns(conv, user_input, m, context) ==
    LET shown == IF Truthy(user_input) THEN user_input[1] ELSE ImagePlaceholder
        query_text == IF Truthy(user_input) THEN user_input[1] ELSE ImageQuery
    IN  conv \o <<Turn("user", shown),
                  Turn("user", SystemPrompt(m, context) \o <<"\n\n", "Topic: ">> \o query_text)>>

\* The handler: the new st.session_state.conversation
HandleInput(conv, user_input, image_bytes, m, context, outcome) ==
    IF ~ShouldHandle(user_input, image_bytes) THEN conv
    ELSE LET sent == WithUserTurns(conv, user_input, m, context)
             reply == call_gemini(sent, image_bytes, outcome)
         IN  IF reply.raised THEN sent
             ELSE Append(sent, Turn("model", reply.value))

\* The provider requests the handler makes in one run
ProviderRequests(conv, user_input, image_bytes, m, context, outcome) ==
    IF ~ShouldHandle(user_input, image_bytes) THEN 0
    ELSE call_gemini(WithUserTurns(conv, user_input, m, context), image_bytes,
                     outcome).requests

----------------------------------------------------------------------------
(* One script run. *)

ChatTexts == {<<"Photosynthesis">>}

Init ==
    /\ secrets \in SUBSET KeyNames
    /\ conversation = <<>>
    /\ file_content = <<>>
    /\ uploaded_file = NoFile
    /\ uploaded_image = NoImage
    /\ mode = "Explain"
    /\ calls = 0
    /\ submissions = 0
    /\ runs = 0
    /\ last = [event |-> "load", clear |-> FALSE, user_input |-> None,
               handled |-> FALSE, outcome |-> NoOutcome, requests |-> 0]

\* The script, run with the notes uploader holding f, the image uploader img,
\* the radio m, the button's value clear and the chat input's value user_input
ScriptRun(event, f, img, m, clear, user_input, submitted) ==
    LET image_bytes == ReadImage(img)
        handled == ShouldHandle(user_input, image_bytes)
        context == NotesBlock(file_content, f)
        cleared == ClearChatBlock(conversation, clear)
    IN  /\ HasApiKey              \* otherwise st.stop(): nothing below runs
        /\ runs < MaxRuns
        /\ \E outcome \in (IF handled THEN Outcomes ELSE {NoOutcome}) :
              /\ conversation' =
                    HandleInput(cleared, user_input, image_bytes, m, context, outcome)
              /\ calls' = calls +
                    ProviderRequests(cleared, user_input, image_bytes, m, context, outcome)
              /\ last' = [event |-> event, clear |-> clear, user_input |-> user_input,
                          handled |-> handled, outcome |-> outcome,
                          requests |-> calls' - calls]
        /\ file_content' = context
        /\ uploaded_file' = f
        /\ uploaded_image' = img
        /\ mode' = m
        /\ submissions' = IF submitted THEN submissions + 1 ELSE submissions
        /\ runs' = runs + 1
        /\ UNCHANGED secrets

ChatSubmit(text) ==
    ScriptRun("chat", uploaded_file, uploaded_image, mode, FALSE, Some(text), TRUE)

UploadNotes(f) ==
    /\ f # uploaded_file
    /\ ScriptRun("notes", f, uploaded_image, mode, FALSE, None, FALSE)

RemoveNotes ==
    /\ uploaded_file.present
    /\ ScriptRun("notes_removed", NoFile, uploaded_image, mode, FALSE, None, FALSE)

UploadImage(img) ==
    /\ img # uploaded_image
    /\ ScriptRun("image", uploaded_file, img, mode, FALSE, None, Truthy(ReadImage(img)))

RemoveImage ==
    /\ uploaded_image.present
    /\ ScriptRun("image_removed", uploaded_file, NoImage, mode, FALSE, None, FALSE)

ChangeMode(m) ==
    /\ m # mode
    /\ ScriptRun("mode", uploaded_file, uploaded_image, m, FALSE, None, FALSE)

ClearChat ==
    ScriptRun("clear", uploaded_file, uploaded_image, mode, TRUE, None, FALSE)

Next ==
    \/ \E text \in ChatTexts : ChatSubmit(text)
    \/ \E f \in NotesFiles : UploadNotes(f)
    \/ RemoveNotes
    \/ \E img \in ImageFiles : UploadImage(img)
    \/ RemoveImage
    \/ \E m \in Modes : ChangeMode(m)
    \/ ClearChat

Spec == Init /\ [][Next]_vars

----------------------------------------------------------------------------
(* Properties. *)

IsPrefix(a, b) == Len(a) <= Len(b) /\ SubSeq(b, 1, Len(a)) = a

LastTurn(conv) == conv[Len(conv)]

QuotaError(o) == ~o.ok /\ Contains(o.text, "RESOURCE_EXHAUSTED")

PermissionError(o) ==
    /\ ~o.ok
    /\ Contains(o.text, "PERMISSION_DENIED")
    /\ ~Contains(o.text, "RESOURCE_EXHAUSTED")

SecondaryConfigured == "OPENAI_API_KEY" \in secrets

\* What the transcript shows for the user's side of a submission
Shown(user_input) == IF Truthy(user_input) THEN user_input[1] ELSE ImagePlaceholder

\* No image bytes: nothing uploaded, an empty image, or one that cannot be read
NoImageBytes(img) == ~img.present \/ img.data = <<>> \/ ~img.valid

(* C1: a submission of non-empty chat text appends exactly one turn of role
   "user" and at most one other turn: the conversation grows by 1 or 2. *)
C1_OneUserTurnPerSubmission ==
    [][(last'.event = "chat" /\ last'.handled) =>
         LET n == Len(conversation') - Len(conversation)
             added == SubSeq(conversation', Len(conversation) + 1, Len(conversation'))
         IN  /\ IsPrefix(conversation, conversation')
             /\ n \in {1, 2}
             /\ Cardinality({i \in 1..n : added[i].role = "user"}) = 1]_vars

(* C2: at the end of a script run in which Clear Chat was pressed the
   conversation is empty, whatever the uploaders and the radio hold. *)
C2_ClearYieldsEmpty == last.event = "clear" => conversation = <<>>

C4_PermissionErrorIsTerminal ==
    (last.handled /\ PermissionError(last.outcome)) =>
        /\ last.requests = 1
        /\ conversation # <<>>
        /\ LastTurn(conversation) = Turn("model", PermissionMsg)

C4_Witness ==
    /\ last.handled
    /\ PermissionError(last.outcome)
    /\ LastTurn(conversation).content = PermissionMsg

(* C5: whatever the provider outcome, the submission completes with the
   user's turn in the conversation and an assistant turn as the last entry:
   the reply on success, a formatted error text on failure. *)
C5_FailuresBecomeAssistantTurn ==
    last.handled =>
        /\ Len(conversation) >= 2
        /\ LastTurn(conversation).role = "model"
        /\ last.outcome.ok => LastTurn(conversation).content = last.outcome.text
        /\ ~last.outcome.ok =>
              LastTurn(conversation).content \in
                  {QuotaMsg, PermissionMsg, SomethingWentWrong \o last.outcome.text}
        /\ \E i \in 1..(Len(conversation) - 1) :
              conversation[i] = Turn("user", Shown(last.user_input))

C5_Witness ==
    /\ last.handled
    /\ last.outcome = [ok |-> FALSE, text |-> <<"TypeError">>]
    /\ LastTurn(conversation) =
          Turn("model", SomethingWentWrong \o <<"TypeError">>)

(* C6: a run whose notes extraction raises leaves file_content as it was,
   and file_content changes only to the text of a successful extraction. *)
C6_FailedExtractionKeepsContext ==
    [][/\ (uploaded_file'.present /\ ExtractText(uploaded_file').raised)
            => file_content' = file_content
       /\ file_content' # file_content =>
            /\ uploaded_file'.present
            /\ ~ExtractText(uploaded_file').raised
            /\ file_content' = ExtractText(uploaded_file').text]_vars

C6_Witness ==
    /\ last.event = "notes"
    /\ uploaded_file = BrokenDocx
    /\ file_content = <<"chlorophyll", "\n">>

(* C7: a run with no chat input and no image bytes makes no provider request
   and appends nothing to the conversation. *)
C7_NoInputNoSubmission ==
    [][(~Truthy(last'.user_input) /\ NoImageBytes(uploaded_image')) =>
         /\ calls' = calls
         /\ ~last'.handled
         /\ conversation' = (IF last'.clear THEN <<>> ELSE conversation)]_vars

C7_Witness ==
    /\ last.event = "image"
    /\ uploaded_image \in {EmptyPng, CorruptJpg}
    /\ ~last.handled
    /\ conversation # <<>>

(* C8: the mode is not stored in the conversation: the same submission made
   under any other mode leaves the same conversation. *)
C8_ModeNotInHistory ==
    [][last'.handled =>
         \A m \in Modes :
            conversation' =
                HandleInput(ClearChatBlock(conversation, last'.clear), last'.user_input,
                            ReadImage(uploaded_image'), m, file_content', last'.outcome)]_vars

(* C9: the provider requests made equal the user submissions (typed chat
   inputs and uploaded images), and a run caused by any other widget event
   makes no provider request. *)
C9_OneCallPerSubmission ==
    /\ calls = submissions
    /\ last.event \in {"notes", "notes_removed", "image_removed", "mode", "clear"}
          => last.requests = 0

(* C10: every step either empties the conversation or extends it: the
   previous conversation is a prefix of the new one. *)
C10_AppendOnlyOrReset ==
    [][conversation' = <<>> \/ IsPrefix(conversation, conversation')]_vars

====
